---- MODULE Spec2Model ----
(***************************************************************************)
(* Model of scraper/article.py: the construction of one Article from a     *)
(* row-group (Article.__init__ and the seven extraction steps it calls),   *)
(* and the two methods a caller may invoke on a record (is_valid,          *)
(* _generate_id).                                                          *)
(*                                                                         *)
(* Representation of Python values                                         *)
(*   None / a value v     : <<>> / <<v>>                                   *)
(*   str (labels, titles) : a sequence of chunks; a chunk is a TLA+ string *)
(*                          standing for one character or one unbroken run *)
(*                          of characters.  Non-ASCII characters are named *)
(*                          by their code point ("U+0162").                *)
(*   paragraph text       : a sequence of atoms [k, s, n]; k is the class  *)
(*                          of the run of characters the regular           *)
(*                          expressions distinguish: "d" a run of digits   *)
(*                          (value n, no leading zero, fewer than five     *)
(*                          digits), "w" a run of ASCII letters, "s" one   *)
(*                          whitespace character, "e" an e-mail address   *)
(*                          (local@domain.tld in the characters the e-mail *)
(*                          pattern accepts), "p" one punctuation mark,    *)
(*                          "x" anything else.                             *)
(*   datetime.date        : [year, month, day]                             *)
(*   an exception         : raised # "none", pc staying at the statement   *)
(*                          that raised; the fields assigned before the    *)
(*                          raise keep their values.                       *)
(***************************************************************************)
EXTENDS Integers, Sequences, FiniteSets, TLC

VARIABLES
  table,      \* the row-group handed to __init__ (what the steps read of it)
  settings,   \* scraper.settings: TYPES and MANDATORY_FIELDS of this deployment
  self,       \* the Article's attributes
  pc,         \* the statement of __init__ (or the direct call) about to run
  raised,     \* the exception that left __init__, "none" if none
  valid       \* what the last is_valid call returned, None before any call

vars == <<table, settings, self, pc, raised, valid>>

(***************************************************************************)
(* Bounds of the model.                                                    *)
(***************************************************************************)
MaxRows == 3
MaxDelta == 1

None == <<>>
Some(v) == <<v>>
Val(o) == o[1]

(***************************************************************************)
(* Sequence helpers.                                                       *)
(***************************************************************************)
RECURSIVE Filter(_, _)
Filter(s, drop) ==
  IF s = <<>> THEN <<>>
  ELSE IF Head(s) \in drop THEN Filter(Tail(s), drop)
       ELSE <<Head(s)>> \o Filter(Tail(s), drop)

Last(s) == s[Len(s)]

(***************************************************************************)
(* Class constants.                                                        *)
(***************************************************************************)
ANEXA == <<" - ANEXA">>
ContactFields == <<"email", "tel", "fax", "addr">>

(***************************************************************************)
(* scraper.settings                                                        *)
(***************************************************************************)
\* the key 'OTHER' of settings.TYPES
OTHER_KEY == <<"O", "T", "H", "E", "R">>

TypesWithOther ==
  (<<"H", "G">> :> "HG") @@ (<<"O", "T", "A">> :> "OG") @@ (OTHER_KEY :> "OTHER")

TypesWithoutOther ==
  (<<"H", "G">> :> "HG") @@ (<<"O", "T", "A">> :> "OG")

MONTHS ==
  [w \in {"ianuarie", "februarie", "martie"} |->
     CASE w = "ianuarie" -> 1 [] w = "februarie" -> 2 [] w = "martie" -> 3]

MAE_BASE_URL == "http://www.mae.ro"

MandatoryConfigs ==
  {<<"article_type", "title">>,
   <<"title", "published_at", "article_type">>,
   <<"feedback_days">>,
   <<"contact", "documents">>,
   <<"identifier">>,
   <<>>}

\* dict.get(key): None when the key is absent (key is itself None or a value)
Get(dict, key) ==
  IF key # None /\ Val(key) \in DOMAIN dict THEN Some(dict[Val(key)]) ELSE None

(***************************************************************************)
(* _sanitize and _do_magic                                                 *)
(***************************************************************************)
\* string.replace('\n', '').replace('\u200b', '') if string, else None
_sanitize(string) ==
  IF string # <<>> THEN Some(Filter(string, {"\n", "U+200B"})) ELSE None

\* bytes C5 A2 C4 82 (U+0162 U+0102) replaced by bytes 54 41 ("TA")
RECURSIVE MagicReplace(_)
MagicReplace(s) ==
  IF Len(s) < 2 THEN s
  ELSE IF s[1] = "U+0162" /\ s[2] = "U+0102"
       THEN <<"T", "A">> \o MagicReplace(SubSeq(s, 3, Len(s)))
       ELSE <<s[1]>> \o MagicReplace(Tail(s))

\* the argument is None or a str; a falsy argument ('' or None) gives None
_do_magic(string) ==
  IF string # None /\ Val(string) # <<>> THEN Some(MagicReplace(Val(string)))
  ELSE None

\* str.strip() of the first link's text: the whitespace characters at both ends
\* (U+200B is not whitespace to str.strip)
RECURSIVE LStrip(_, _)
LStrip(s, ws) ==
  IF s # <<>> /\ Head(s) \in ws THEN LStrip(Tail(s), ws) ELSE s

RECURSIVE RStrip(_, _)
RStrip(s, ws) ==
  IF s # <<>> /\ Last(s) \in ws THEN RStrip(SubSeq(s, 1, Len(s) - 1), ws) ELSE s

Strip(s, ws) == RStrip(LStrip(s, ws), ws)

Whitespace == {" ", "\n", "\t"}

(***************************************************************************)
(* _extract_article_type: the value it assigns to self.article_type and    *)
(* returns.  `not self.article_type` is true of None and of ''.            *)
(***************************************************************************)
Falsy(o) == o = None \/ Val(o) = ""

ArticleTypeOf(text, TYPES) ==
  LET article_type == _sanitize(Strip(text, Whitespace))
      first == Get(TYPES, article_type)
      second == Get(TYPES, _do_magic(article_type))
  IN  IF ~Falsy(first) THEN first
      ELSE IF ~Falsy(second) THEN second
      ELSE Get(TYPES, Some(OTHER_KEY))

(***************************************************************************)
(* _extract_title                                                          *)
(***************************************************************************)
\* str.lower().capitalize() of a type code
LowerCapitalize(code) ==
  CASE code = "HG" -> "Hg"
    [] code = "OG" -> "Og"
    [] code = "OTHER" -> "Other"

\* .replace('\n', ' ').replace('\t', ' ')
ReplaceBlanks(s) == [i \in 1..Len(s) |-> IF s[i] \in {"\n", "\t"} THEN " " ELSE s[i]]

\* re.sub(' +', ' ', title)
RECURSIVE CollapseSpaces(_)
CollapseSpaces(s) ==
  IF Len(s) < 2 THEN s
  ELSE IF s[1] = " " /\ s[2] = " " THEN CollapseSpaces(Tail(s))
       ELSE <<s[1]>> \o CollapseSpaces(Tail(s))

\* desc_text: the second link's text with its trailing newlines removed
TitleOf(art_type, text) ==
  LET desc_text == RStrip(text, {"\n"})
      formatted == <<art_type, " ">> \o desc_text
  IN  Strip(CollapseSpaces(ReplaceBlanks(formatted)), Whitespace)

(***************************************************************************)
(* Paragraph text and the regular expressions (re.search: the leftmost     *)
(* match).  An operator Search... returns None or Some(match), a match     *)
(* being the record of the groups the code reads.                          *)
(***************************************************************************)
W(s) == [k |-> "w", s |-> s, n |-> 0]
X(s) == [k |-> "x", s |-> s, n |-> 0]
D(n) == [k |-> "d", s |-> "", n |-> n]
E(s) == [k |-> "e", s |-> s, n |-> 0]
P(s) == [k |-> "p", s |-> s, n |-> 0]
SP == [k |-> "s", s |-> " ", n |-> 0]

IsDigits(a) == a.k = "d"
IsSpace(a) == a.k = "s"
IsAlpha(a) == a.k = "w"
\* \d{4}: the first four digits of a run of at least four
IsYear(a) == a.k = "d" /\ a.n >= 1000

At(t, i) == IF i \in 1..Len(t) THEN t[i] ELSE X("")

\* the least element of a non-empty set of positions
Min(S) == CHOOSE i \in S : \A j \in S : i <= j

\* DATE_REGX = (\d+)\s([a-zA-Z]*)\s(\d{4}); [a-zA-Z]* may match nothing
DateMatchAt(t, i) ==
  /\ IsDigits(At(t, i)) /\ IsSpace(At(t, i + 1))
  /\ \/ IsAlpha(At(t, i + 2)) /\ IsSpace(At(t, i + 3)) /\ IsYear(At(t, i + 4))
     \/ IsSpace(At(t, i + 2)) /\ IsYear(At(t, i + 3))

SearchDate(t) ==
  LET hits == {i \in 1..Len(t) : DateMatchAt(t, i)}
  IN  IF hits = {} THEN None
      ELSE LET i == Min(hits)
               named == IsAlpha(At(t, i + 2))
           IN  Some([g1 |-> t[i].n,
                     g2 |-> IF named THEN t[i + 2].s ELSE "",
                     g3 |-> IF named THEN t[i + 4].n ELSE t[i + 3].n])

\* TIMEDELTA_REGX = (timp\sde\s([0-9]+)\szile)
DeltaMatchAt(t, i) ==
  /\ At(t, i) = W("timp") /\ IsSpace(At(t, i + 1))
  /\ At(t, i + 2) = W("de") /\ IsSpace(At(t, i + 3))
  /\ IsDigits(At(t, i + 4)) /\ IsSpace(At(t, i + 5))
  /\ At(t, i + 6) = W("zile")

SearchDelta(t) ==
  LET hits == {i \in 1..Len(t) : DeltaMatchAt(t, i)}
  IN  IF hits = {} THEN None ELSE Some([g2 |-> t[Min(hits) + 4].n])

(***************************************************************************)
(* datetime.date                                                           *)
(***************************************************************************)
IsLeap(y) == y % 4 = 0 /\ (y % 100 # 0 \/ y % 400 = 0)

DaysInMonth(y, m) ==
  IF m = 2 THEN (IF IsLeap(y) THEN 29 ELSE 28)
  ELSE IF m \in {4, 6, 9, 11} THEN 30 ELSE 31

\* date(year, month, day) raises ValueError outside these ranges
ValidDate(y, m, d) ==
  y \in 1..9999 /\ m \in 1..12 /\ d \in 1..DaysInMonth(y, m)

RECURSIVE DaysBeforeMonth(_, _)
DaysBeforeMonth(y, m) ==
  IF m = 1 THEN 0 ELSE DaysBeforeMonth(y, m - 1) + DaysInMonth(y, m - 1)

DaysBeforeYear(y) ==
  LET p == y - 1 IN p * 365 + (p \div 4) - (p \div 100) + (p \div 400)

\* date.toordinal()
ToOrdinal(dt) ==
  DaysBeforeYear(dt.year) + DaysBeforeMonth(dt.year, dt.month) + dt.day

\* date.fromordinal(n), for an ordinal within one year of `near`
FromOrdinal(n, near) ==
  CHOOSE dt \in [year : {near.year, near.year + 1}, month : 1..12, day : 1..31] :
    ValidDate(dt.year, dt.month, dt.day) /\ ToOrdinal(dt) = n

\* date + timedelta(days=n)
DatePlusDays(dt, n) == FromOrdinal(ToOrdinal(dt) + n, dt)

\* mutant: the operands of the subtraction exchanged
DaysBetweenReversed(a, b) == ToOrdinal(b) - ToOrdinal(a)

\* (a - b).days
DaysBetween(a, b) == ToOrdinal(a) - ToOrdinal(b)

(***************************************************************************)
(* _build_date_from_match: "ValueError" when date() rejects the numbers,   *)
(* None when the month name is not in settings.MONTHS, else the date.      *)
(***************************************************************************)
BuildDateRaises(match) ==
  LET month == Get(MONTHS, Some(match.g2))
  IN  month # None /\ ~ValidDate(match.g3, Val(month), match.g1)

_build_date_from_match(match) ==
  LET month == Get(MONTHS, Some(match.g2))
  IN  IF month = None THEN None
      ELSE Some([year |-> match.g3, month |-> Val(month), day |-> match.g1])

(***************************************************************************)
(* CONTACT_REGX.  Each search returns None or Some([g1 |-> group(1)]).     *)
(***************************************************************************)
\* email = \s(([a-zA-Z0-9\._]|\.)*?@[a-zA-Z]*?\.[a-zA-Z]*?)(?:\s|\.|,)
EmailMatchAt(t, i) ==
  /\ IsSpace(At(t, i)) /\ At(t, i + 1).k = "e"
  /\ (IsSpace(At(t, i + 2)) \/ At(t, i + 2) \in {P("."), P(",")})

SearchEmail(t) ==
  LET hits == {i \in 1..Len(t) : EmailMatchAt(t, i)}
  IN  IF hits = {} THEN None ELSE Some([g1 |-> <<t[Min(hits) + 1]>>])

\* \s*: the position after the whitespace that starts at j
RECURSIVE SkipSpaces(_, _)
SkipSpaces(t, j) == IF IsSpace(At(t, j)) THEN SkipSpaces(t, j + 1) ELSE j

\* keyword\s?:?\s*  followed by a digit: the position of that digit, 0 if none
NumberAfter(t, i) ==
  LET j1 == IF IsSpace(At(t, i + 1)) THEN i + 2 ELSE i + 1
      j2 == IF At(t, j1) = P(":") THEN j1 + 1 ELSE j1
      j3 == SkipSpaces(t, j2)
  IN  IF IsDigits(At(t, j3)) THEN j3 ELSE 0

\* ((\d+(?:\s|-|\.)?)+) from the digits at j: the position of its last character
RECURSIVE NumberRunEnd(_, _)
NumberRunEnd(t, j) ==
  IF IsSpace(At(t, j + 1)) \/ At(t, j + 1) \in {P("-"), P(".")}
  THEN IF IsDigits(At(t, j + 2)) THEN NumberRunEnd(t, j + 2) ELSE j + 1
  ELSE j

\* tel = (?:tel|telefon)\s?:?\s*((\d+(?:\s|-|\.)?)+)(,|\s|\.)?
\* fax = fax\s?:?\s*((\d+(?:\s|-|\.)?)+)(,|\s|\.)?
SearchNumber(t, keywords) ==
  LET hits == {i \in 1..Len(t) : At(t, i) \in keywords /\ NumberAfter(t, i) # 0}
  IN  IF hits = {} THEN None
      ELSE LET j == NumberAfter(t, Min(hits))
           IN  Some([g1 |-> SubSeq(t, j, NumberRunEnd(t, j))])

\* \scod(:|\s)?\d+ at position j
CodAt(t, j) ==
  /\ IsSpace(At(t, j)) /\ At(t, j + 1) = W("cod")
  /\ \/ IsDigits(At(t, j + 2))
     \/ (IsSpace(At(t, j + 2)) \/ At(t, j + 2) = P(":")) /\ IsDigits(At(t, j + 3))

CodEnd(t, j) == IF IsDigits(At(t, j + 2)) THEN j + 2 ELSE j + 3

\* addr = adresa po[U+015F]tal[U+0103]\s?a?\s*(.*?\scod(:|\s)?\d+)
\* The prefix \s?a?\s* is greedy and gives back what the group needs: a
\* candidate <<u, v, k>> takes u spaces, v words "a" and k more spaces; the
\* engine's choice is the greatest feasible candidate in that order, and .*?
\* then stops at the first "cod".
AddrPrefix(t, p) ==
  LET cands == {c \in {0, 1} \X {0, 1} \X (0..Len(t)) :
                  /\ c[1] = 1 => IsSpace(At(t, p))
                  /\ c[2] = 1 => At(t, p + c[1]) = W("a")
                  /\ p + c[1] + c[2] + c[3] <= SkipSpaces(t, p + c[1] + c[2])
                  /\ \E j \in (p + c[1] + c[2] + c[3])..Len(t) : CodAt(t, j)}
      Better(a, b) ==
        \/ a[1] > b[1]
        \/ a[1] = b[1] /\ a[2] > b[2]
        \/ a[1] = b[1] /\ a[2] = b[2] /\ a[3] >= b[3]
  IN  IF cands = {} THEN 0
      ELSE LET c == CHOOSE a \in cands : \A b \in cands : Better(a, b)
           IN  p + c[1] + c[2] + c[3]

AddrMatchAt(t, i) ==
  /\ At(t, i) = W("adresa") /\ IsSpace(At(t, i + 1))
  /\ At(t, i + 2) = X("po[U+015F]tal[U+0103]")
  /\ AddrPrefix(t, i + 3) # 0

SearchAddr(t) ==
  LET hits == {i \in 1..Len(t) : AddrMatchAt(t, i)}
  IN  IF hits = {} THEN None
      ELSE LET s == AddrPrefix(t, Min(hits) + 3)
               j == Min({j \in s..Len(t) : CodAt(t, j)})
           IN  Some([g1 |-> SubSeq(t, s, CodEnd(t, j))])

\* re.search(self.CONTACT_REGX[field], contact_paragraph)
SearchContact(field, t) ==
  CASE field = "email" -> SearchEmail(t)
    [] field = "tel" -> SearchNumber(t, {W("tel"), W("telefon")})
    [] field = "fax" -> SearchNumber(t, {W("fax")})
    [] field = "addr" -> SearchAddr(t)

\* str.strip() of a captured group
RECURSIVE LStripText(_)
LStripText(t) == IF t # <<>> /\ IsSpace(Head(t)) THEN LStripText(Tail(t)) ELSE t

RECURSIVE RStripText(_)
RStripText(t) ==
  IF t # <<>> /\ IsSpace(Last(t)) THEN RStripText(SubSeq(t, 1, Len(t) - 1)) ELSE t

StripText(t) == RStripText(LStripText(t))

(***************************************************************************)
(* _build_contact: the paragraph it reads and the dict it builds, one      *)
(* field of CONTACT_REGX after the other.                                  *)
(***************************************************************************)
\* mutant: index [-1] where the code has [0]
ContactParagraphLast(paragraphs) == Last(paragraphs)

\* row[-1].select('p')[0].text
ContactParagraph(paragraphs) == paragraphs[1]

RECURSIVE ContactLoop(_, _, _)
ContactLoop(fields, contact_paragraph, contact) ==
  IF fields = <<>> THEN contact
  ELSE LET field == Head(fields)
           aux == SearchContact(field, contact_paragraph)
       IN  IF aux # None /\ StripText(Val(aux).g1) # <<>>
           THEN ContactLoop(Tail(fields), contact_paragraph,
                            contact @@ (field :> StripText(Val(aux).g1)))
           ELSE ContactLoop(Tail(fields), contact_paragraph, contact)

\* dict()
EmptyDict == [f \in {} |-> <<>>]

BuildContact(paragraphs) ==
  ContactLoop(ContactFields, ContactParagraph(paragraphs), EmptyDict)

(***************************************************************************)
(* _build_documents                                                        *)
(***************************************************************************)
\* the exception the method raises on this row-group, "none" if none:
\* _sanitize gives None for an empty cell and None + ' - ANEXA' is a
\* TypeError; row[1] of a one-row group is an IndexError
DocumentsRaises(nrows, cell2) ==
  IF nrows >= 2 /\ _sanitize(cell2) = None THEN "TypeError"
  ELSE IF nrows < 2 THEN "IndexError"
  ELSE "none"

DocumentsOf(article_type, nrows, cell2, href1, href2) ==
  LET t1 == IF ~Falsy(article_type) THEN Some(<<Val(article_type)>> \o ANEXA)
            ELSE None
      t2 == IF nrows >= 2 THEN Some(Val(_sanitize(cell2)) \o ANEXA) ELSE None
      first == <<[type |-> t1, url |-> <<MAE_BASE_URL, href1>>]>>
  IN  IF t2 # None /\ Val(t2) # <<>>
      THEN first \o <<[type |-> t2, url |-> <<MAE_BASE_URL, href2>>]>>
      ELSE first

(***************************************************************************)
(* _extract_published_at                                                   *)
(***************************************************************************)
\* mutant: index [0] where the code has [-1]
PublishedParagraphFirst(paragraphs) == paragraphs[1]

\* row[-1].find_all('p')[-1].text
PublishedParagraph(paragraphs) == Last(paragraphs)

PublishedRaises(paragraphs) ==
  LET match == SearchDate(PublishedParagraph(paragraphs))
  IN  match # None /\ BuildDateRaises(Val(match))

\* the value of self.published_at after the method (it was None before)
PublishedAtOf(paragraphs) ==
  LET match == SearchDate(PublishedParagraph(paragraphs))
  IN  IF match # None THEN _build_date_from_match(Val(match)) ELSE None

(***************************************************************************)
(* _extract_feedback_days                                                  *)
(***************************************************************************)
\* row[-1].find_all('p')[0].text
FeedbackParagraph(paragraphs) == paragraphs[1]

\* feedback_date, or the exception raised while computing it:
\* None + timedelta is a TypeError
FeedbackDate(paragraphs, published_at) ==
  LET desc_text == FeedbackParagraph(paragraphs)
      match == SearchDate(desc_text)
      delta_match == SearchDelta(desc_text)
  IN  IF match # None
      THEN IF BuildDateRaises(Val(match))
           THEN [raised |-> "ValueError", date |-> None]
           ELSE [raised |-> "none", date |-> _build_date_from_match(Val(match))]
      ELSE IF delta_match # None
           THEN IF published_at = None
                THEN [raised |-> "TypeError", date |-> None]
                ELSE [raised |-> "none",
                      date |-> Some(DatePlusDays(Val(published_at),
                                                 Val(delta_match).g2))]
           ELSE [raised |-> "none", date |-> None]

\* the outcome of the method: the exception ("none" if none) and the value of
\* self.feedback_days after it (it was None before); date - None is a TypeError
FeedbackDays(paragraphs, published_at) ==
  LET fd == FeedbackDate(paragraphs, published_at)
  IN  IF fd.raised # "none" THEN [raised |-> fd.raised, days |-> None]
      ELSE IF fd.date = None THEN [raised |-> "none", days |-> None]
      ELSE IF published_at = None THEN [raised |-> "TypeError", days |-> None]
      ELSE [raised |-> "none",
            days |-> Some(DaysBetween(Val(fd.date), Val(published_at)))]

(***************************************************************************)
(* _generate_id and is_valid                                               *)
(***************************************************************************)
\* hashlib.md5(title.encode()).hexdigest(): the digest as a term over its input
Md5Hex(title) == <<"md5", title>>

\* truth value of an attribute of the record
Truthy(field, v) ==
  /\ v # None
  /\ CASE field = "article_type" -> Val(v) # ""
       [] field \in {"title", "documents"} -> Val(v) # <<>>
       [] field = "feedback_days" -> Val(v) # 0
       [] field = "contact" -> DOMAIN Val(v) # {}
       [] OTHER -> TRUE

\* mutant: `is not None` where the code tests truth, so '' counts as present
IdentifierOfNotNone(article_type, title) ==
  IF article_type # None /\ title # None
  THEN Some(<<Val(article_type), "-", Md5Hex(Val(title))>>)
  ELSE None

IdentifierOf(article_type, title) ==
  IF Truthy("article_type", article_type) /\ Truthy("title", title)
  THEN Some(<<Val(article_type), "-", Md5Hex(Val(title))>>)
  ELSE None

\* mutant: `return True` inside the loop, so only the first field is tested
IsValidFirstOnly(fields, record) ==
  IF fields = <<>> THEN TRUE ELSE Truthy(Head(fields), record[Head(fields)])

RECURSIVE IsValidLoop(_, _)
IsValidLoop(fields, record) ==
  IF fields = <<>> THEN TRUE
  ELSE IF ~Truthy(Head(fields), record[Head(fields)]) THEN FALSE
  ELSE IsValidLoop(Tail(fields), record)

(***************************************************************************)
(* The row-groups and records the model ranges over.                       *)
(***************************************************************************)
\* text of the first link of row 0: the raw type label
Labels ==
  {<<"H", "G">>, <<"\n", "H", "U+200B", "G", " ">>, <<"O", "U+0162", "U+0102">>,
   <<"L", "E", "G", "E">>, <<>>}

\* text of the second link of row 0
Descriptions ==
  {<<"privind", " ", "bugetul">>, <<"\n", "privind", "\t", " ", "bugetul", "\n">>}

\* text of the first cell of row 1
Cells == {<<"Nota", "\n">>, <<>>}

Join(a, b) == IF a = <<>> THEN b ELSE IF b = <<>> THEN a ELSE a \o <<SP>> \o b

DatePhrase(day, word, year) == <<D(day), SP, W(word), SP, D(year)>>

DeltaPhrase(n) == <<W("timp"), SP, W("de"), SP, D(n), SP, W("zile")>>

Deltas == {0} \cup {10 * k : k \in 1..MaxDelta}

DeadlinePhrases ==
  {<<>>, DatePhrase(20, "ianuarie", 2020), DatePhrase(1, "februarie", 2020),
   DatePhrase(31, "februarie", 2020), DatePhrase(52, "din", 2003)}

PublishedPhrases ==
  {<<>>, DatePhrase(1, "ianuarie", 2020), DatePhrase(15, "ianuarie", 2020),
   DatePhrase(25, "ianuarie", 2020), DatePhrase(15, "mumble", 2020),
   DatePhrase(30, "februarie", 2020)}

EmailPhrase == <<W("email"), SP, E("office@mae.ro"), P(",")>>
TelPhrase == <<W("tel"), P(":"), SP, D(21), SP, D(4311), P(",")>>
FaxPhrase == <<W("fax"), SP, D(21), P("-"), D(3196), SP>>
AddrPhrase ==
  <<W("adresa"), SP, X("po[U+015F]tal[U+0103]"), SP, W("a"), SP, W("Aleea"),
    SP, W("cod"), SP, D(1182)>>

ContactPhrases ==
  {EmailPhrase, Join(TelPhrase, FaxPhrase),
   Join(Join(EmailPhrase, TelPhrase), Join(FaxPhrase, AddrPhrase)),
   <<E("office@mae.ro"), SP, W("telefon"), SP, W("cod"), D(7)>>}

\* the paragraphs of the trailing row: the first, which may be the only one
FirstParagraphs ==
  ContactPhrases
  \cup {Join(dl, dt) : dl \in {<<>>} \cup {DeltaPhrase(n) : n \in Deltas},
                      dt \in DeadlinePhrases}
  \cup {Join(EmailPhrase, DeltaPhrase(10))}

LastParagraphs ==
  PublishedPhrases \cup {Join(TelPhrase, DatePhrase(15, "ianuarie", 2020))}

ParagraphLists ==
  {<<f>> : f \in FirstParagraphs}
  \cup {<<f, l>> : f \in FirstParagraphs, l \in LastParagraphs}

\* the attributes as the class body sets them (lines 40-46)
ClassDefaults ==
  [identifier |-> None, article_type |-> None, title |-> None,
   documents |-> None, published_at |-> None, feedback_days |-> None,
   contact |-> None]

\* attribute values of a record a caller hands to is_valid or _generate_id
DirectRecords ==
  [identifier : {None},
   article_type : {None, Some(""), Some("HG")},
   title : {None, Some(<<>>), Some(<<"Hg", " ", "privind">>)},
   documents : {None, Some(<<[type |-> None, url |-> <<MAE_BASE_URL, "/a.pdf">>]>>)},
   published_at : {None, Some([year |-> 2020, month |-> 1, day |-> 15])},
   feedback_days : {None, Some(0), Some(19)},
   contact : {None, Some(EmptyDict), Some("email" :> <<E("office@mae.ro")>>)}]

Unread ==
  [label |-> None, desc |-> None, paragraphs |-> None, nrows |-> None,
   cell2 |-> None]

(***************************************************************************)
(* Init: either __init__ is entered with a row-group (whose parts are      *)
(* fixed when a step first reads them), or a caller holds a record and     *)
(* invokes a method on it.                                                 *)
(***************************************************************************)
Init ==
  /\ table = Unread
  /\ \E T \in {TypesWithOther, TypesWithoutOther} :
       settings = [TYPES |-> T, MANDATORY_FIELDS |-> None]
  /\ \/ pc = "type" /\ self = ClassDefaults
     \/ pc = "direct" /\ self \in DirectRecords
  /\ raised = "none"
  /\ valid = None

\* the statement about to run; no statement runs after an exception
Running(statement) == pc = statement /\ raised = "none"

\* the exception leaves __init__: pc stays at the statement that raised
Raise(exception) ==
  /\ pc' = pc
  /\ raised' = exception

Goto(next) ==
  /\ pc' = next
  /\ raised' = raised

\* line 30: self._extract_article_type(tr)
_extract_article_type ==
  /\ Running("type")
  /\ \E text \in Labels :
       /\ table' = [table EXCEPT !.label = Some(text)]
       /\ self' = [self EXCEPT !.article_type = ArticleTypeOf(text, settings.TYPES)]
  /\ Goto("title")
  /\ UNCHANGED <<settings, valid>>

\* line 31: self._extract_title(tr); None.lower() is an AttributeError
_extract_title ==
  /\ Running("title")
  /\ LET article_type == ArticleTypeOf(Val(table.label), settings.TYPES)
     IN  IF article_type = None
         THEN /\ self' = [self EXCEPT !.article_type = article_type]
              /\ table' = table
              /\ Raise("AttributeError")
         ELSE \E text \in Descriptions :
                /\ table' = [table EXCEPT !.desc = Some(text)]
                /\ self' = [self EXCEPT
                              !.article_type = article_type,
                              !.title = Some(TitleOf(LowerCapitalize(Val(article_type)),
                                                     text))]
                /\ Goto("contact")
  /\ UNCHANGED <<settings, valid>>

\* line 32: self._build_contact(tr)
_build_contact ==
  /\ Running("contact")
  /\ \E paragraphs \in ParagraphLists :
       /\ table' = [table EXCEPT !.paragraphs = Some(paragraphs)]
       /\ self' = [self EXCEPT !.contact = Some(BuildContact(paragraphs))]
  /\ Goto("documents")
  /\ UNCHANGED <<settings, valid>>

\* line 33: self._build_documents(tr)
_build_documents ==
  /\ Running("documents")
  /\ \E nrows \in 1..MaxRows, cell2 \in Cells :
       /\ nrows = 1 => cell2 = <<>>
       /\ table' = [table EXCEPT !.nrows = Some(nrows), !.cell2 = Some(cell2)]
       /\ IF DocumentsRaises(nrows, cell2) # "none"
          THEN /\ self' = self
               /\ Raise(DocumentsRaises(nrows, cell2))
          ELSE /\ self' = [self EXCEPT !.documents =
                             Some(DocumentsOf(self.article_type, nrows, cell2,
                                              "/act.pdf", "/nota.pdf"))]
               /\ Goto("published_at")
  /\ UNCHANGED <<settings, valid>>

\* line 35: self._extract_published_at(tr)
_extract_published_at ==
  /\ Running("published_at")
  /\ IF PublishedRaises(Val(table.paragraphs))
     THEN /\ self' = self
          /\ Raise("ValueError")
     ELSE /\ self' = [self EXCEPT !.published_at = PublishedAtOf(Val(table.paragraphs))]
          /\ Goto("feedback_days")
  /\ UNCHANGED <<table, settings, valid>>

\* line 36: self._extract_feedback_days(tr)
_extract_feedback_days ==
  /\ Running("feedback_days")
  /\ LET out == FeedbackDays(Val(table.paragraphs), self.published_at)
     IN  IF out.raised # "none"
         THEN /\ self' = self
              /\ Raise(out.raised)
         ELSE /\ self' = [self EXCEPT !.feedback_days = out.days]
              /\ Goto("id")
  /\ UNCHANGED <<table, settings, valid>>

\* line 37: self._generate_id(), or a caller's own call of it
_generate_id ==
  /\ pc \in {"id", "direct"} /\ raised = "none"
  /\ LET identifier == IdentifierOf(self.article_type, self.title)
     IN  self' = IF identifier # None THEN [self EXCEPT !.identifier = identifier]
                 ELSE self
  /\ Goto(IF pc = "id" THEN "done" ELSE "direct_done")
  /\ UNCHANGED <<table, settings, valid>>

\* a caller's article.is_valid(), on a constructed Article or on its own record
is_valid ==
  /\ pc \in {"done", "direct", "direct_done"} /\ raised = "none"
  /\ \E fields \in MandatoryConfigs :
       /\ settings.MANDATORY_FIELDS \in {None, Some(fields)}
       /\ settings' = [settings EXCEPT !.MANDATORY_FIELDS = Some(fields)]
       /\ valid' = Some(IsValidLoop(fields, self))
  /\ UNCHANGED <<table, self, pc, raised>>

Next ==
  \/ _extract_article_type
  \/ _extract_title
  \/ _build_contact
  \/ _build_documents
  \/ _extract_published_at
  \/ _extract_feedback_days
  \/ _generate_id
  \/ is_valid

Spec == Init /\ [][Next]_vars

(***************************************************************************)
(* Which steps have acted in the current state.                            *)
(***************************************************************************)
Order ==
  <<"type", "title", "contact", "documents", "published_at", "feedback_days",
    "id", "done">>

Position(statement) == CHOOSE i \in 1..Len(Order) : Order[i] = statement

\* the statement has run: to completion, or up to the exception it raised
Acted(statement) ==
  /\ pc \in {Order[i] : i \in 1..Len(Order)}
  /\ \/ Position(pc) > Position(statement)
     \/ pc = statement /\ raised # "none"

Paragraphs == Val(table.paragraphs)
FirstParagraph == Paragraphs[1]
LastParagraph == Paragraphs[Len(Paragraphs)]

\* the match is a day, a month name of settings.MONTHS and a year that
\* together name a calendar date
NamesDate(match) ==
  /\ match # None
  /\ Val(match).g2 \in DOMAIN MONTHS
  /\ ValidDate(Val(match).g3, MONTHS[Val(match).g2], Val(match).g1)

DateNamed(match) ==
  [year |-> Val(match).g3, month |-> MONTHS[Val(match).g2], day |-> Val(match).g1]

\* the date pattern matches but its month name is not in settings.MONTHS
UnknownMonth(match) == match # None /\ Val(match).g2 \notin DOMAIN MONTHS

(***************************************************************************)
(* C1.  For every well-formed row-group, once DocumentLinker has run,      *)
(* `documents` holds exactly 2 entries when the row-group has two (or      *)
(* more) rows and exactly 1 entry when it has one row; never 0 and never   *)
(* more than 2.  Well-formed: every row present has a document cell with   *)
(* text and a link.                                                        *)
(***************************************************************************)
C1_DocumentCount ==
  (Acted("documents") /\ (Val(table.nrows) >= 2 => Val(table.cell2) # <<>>))
    => /\ self.documents # None
       /\ Len(Val(self.documents)) = (IF Val(table.nrows) >= 2 THEN 2 ELSE 1)

(***************************************************************************)
(* C2.  When `published_at` is unset after DateResolver has run and the    *)
(* first paragraph matches the date pattern (naming a calendar date) or    *)
(* the relative "timp de N zile" pattern, FeedbackWindowResolver completes *)
(* without raising and leaves `feedback_days` unset.                       *)
(***************************************************************************)
C2_FeedbackSkippedWithoutPublishedAt ==
  (/\ Acted("feedback_days")
   /\ self.published_at = None
   /\ \/ NamesDate(SearchDate(FirstParagraph))
      \/ SearchDelta(FirstParagraph) # None /\ SearchDate(FirstParagraph) = None)
    => /\ raised = "none"
       /\ self.feedback_days = None

(***************************************************************************)
(* C4.  `feedback_days`, if present, is a non-negative integer, also when  *)
(* the deadline date in the first paragraph is earlier than                *)
(* `published_at`.                                                         *)
(***************************************************************************)
C4_FeedbackDaysNonNegative ==
  self.feedback_days # None => Val(self.feedback_days) >= 0

(***************************************************************************)
(* C9.  FeedbackWindowResolver falls through: when the first paragraph     *)
(* matches the date pattern but the month name does not resolve, and it    *)
(* also matches "timp de N zile", then (with `published_at` set)           *)
(* `feedback_days` = N.                                                    *)
(***************************************************************************)
C9_FallsThroughToRelative ==
  (/\ Acted("feedback_days")
   /\ self.published_at # None
   /\ UnknownMonth(SearchDate(FirstParagraph))
   /\ SearchDelta(FirstParagraph) # None)
    => self.feedback_days = Some(Val(SearchDelta(FirstParagraph)).g2)

(***************************************************************************)
(* C10.  TypeClassifier never raises and yields the table's code for the   *)
(* sanitized label, else for the label after the byte substitution, else   *)
(* the "OTHER" code, else None; and when the type is None, TitleBuilder    *)
(* still completes without error and produces a title.                     *)
(***************************************************************************)
C10_ClassifierAndTitleNeverRaise ==
  /\ Acted("type") =>
       /\ ~(pc = "type" /\ raised # "none")
       /\ LET key == _sanitize(Strip(Val(table.label), Whitespace))
              T == settings.TYPES
          IN  self.article_type =
                IF key # None /\ Val(key) \in DOMAIN T THEN Some(T[Val(key)])
                ELSE IF key # None /\ Val(key) # <<>>
                        /\ MagicReplace(Val(key)) \in DOMAIN T
                     THEN Some(T[MagicReplace(Val(key))])
                ELSE IF OTHER_KEY \in DOMAIN T THEN Some(T[OTHER_KEY])
                ELSE None
  /\ (Acted("title") /\ self.article_type = None) =>
       /\ raised = "none"
       /\ self.title # None

C6_IsValid ==
  [][(valid' # valid \/ settings' # settings) =>
       /\ self' = self /\ table' = table /\ pc' = pc /\ raised' = raised
       /\ LET fields == Val(settings'.MANDATORY_FIELDS)
          IN  valid' = Some(\A i \in 1..Len(fields) : Truthy(fields[i], self[fields[i]]))
    ]_vars

C6_Witness ==
  /\ pc = "done"
  /\ settings.MANDATORY_FIELDS = Some(<<"article_type", "title">>)
  /\ self.published_at = None /\ self.feedback_days = None
  /\ self.contact = Some(EmptyDict)
  /\ valid = Some(TRUE)

ContactDecidedBy(paragraph) ==
  \A i \in 1..Len(ContactFields) :
    LET k == ContactFields[i]
        aux == SearchContact(k, paragraph)
        found == aux # None /\ StripText(Val(aux).g1) # <<>>
    IN  /\ k \in DOMAIN Val(self.contact) <=> found
        /\ found => Val(self.contact)[k] = StripText(Val(aux).g1)

C8_ContactFromLastParagraph ==
  Acted("contact") => ContactDecidedBy(LastParagraph)

(***************************************************************************)
(* C8 amended.  ContactParser takes its input from the FIRST paragraph of  *)
(* the trailing row: `contact` contains key k (email/tel/fax/addr) if and  *)
(* only if pattern k matches in that first paragraph with a first group    *)
(* that is non-empty after trimming, and then holds the trimmed group; the *)
(* four keys are decided independently (a paragraph with only an e-mail    *)
(* address yields only the `email` key).                                   *)
(***************************************************************************)
C8_ContactFromFirstParagraph ==
  Acted("contact") => ContactDecidedBy(FirstParagraph)

C8_Witness ==
  /\ Acted("contact")
  /\ Len(Paragraphs) = 2
  /\ SearchContact("tel", LastParagraph) # None
  /\ FirstParagraph = EmailPhrase
  /\ DOMAIN Val(self.contact) = {"email"}

====
